---- MODULE Spec2Model ----
(***************************************************************************)
(* Playback orchestration of MidiSoundfontTester (src/sountfontTest.py).   *)
(*                                                                         *)
(* The GTK main thread runs one callback at a time; a callback is a        *)
(* sequence of steps (todo) between which the monitor threads and the      *)
(* external processes take their own steps.  stop_fluidsynth / stop_xmp    *)
(* block in Popen.wait(timeout=2), so the other threads run while the      *)
(* main thread is inside them.                                             *)
(***************************************************************************)
EXTENDS Integers, Sequences, FiniteSets, TLC

\* ---------------------------------------------------------------- bounds
MaxProcs == 2          \* processes spawned in one run
MaxFiles == 2          \* rows of the filtered file list
MaxCommands == 2       \* user commands in one run
MaxReloads == 1        \* changes of the source directory in one run

\* ------------------------------------------------------ program constants
StopTimeout == 2       \* Popen.wait(timeout=2)
NumStreams == 3        \* len(self.streams)
SIGTERM == 15
SIGKILL == 9

Pids == 1..MaxProcs
Threads == {"main"}
Renderers == {"fluidsynth", "xmp"}
Backends == {"fluidsynth", "xmp", "mplayer"}
FileKinds == {"mid", "mod"}
OwnExitCodes == {0, 1}

VARIABLES
    process,                \* fluidsynth_process, xmp_process, mplayer_process (0 = None)
    stopped_intentionally,  \* fluidsynth_stopped_intentionally, xmp_stopped_intentionally
    radio,                  \* self.radio
    current_stream_index,   \* self.current_stream_index
    elapsed_timer,          \* self.elapsed_timer (FALSE = None)
    status_label,           \* text of self.status_label
    all_filter,             \* visible rows of the file list, by file kind
    selected,               \* selected row of all_treeview (0 = no selection)
    shuffle_mode,           \* self.shuffle_mode
    sf2_selected,           \* a row of sf2_treeview is selected
    all_store,              \* rows of self.all_store: display name, folder, file kind
    favourites,             \* self.favourites, as rows of all_store
    search_text,            \* text of self.search_entry
    visible,                \* the rows of all_store that all_filter shows
    search_pending,         \* a "search-changed" signal has not been delivered yet
    favourites_file,        \* the text of the file self.favourites_file names
    all_files,              \* self.all_files: the paths find_all_files returned last
    loader,                 \* the thread that runs _load_files_from_new_directory
    stream_title,           \* self.stream_title
    track_thread,           \* self.track_thread: the reader thread started last (0 = unset)
    readers,                \* the fetch_current_track threads, one per mplayer started
    procs,                  \* the external processes spawned so far
    nextPid,                \* number of Popen calls that succeeded, plus one
    monitors,               \* the monitor threads, one per successful Popen
    idle_queue,             \* callbacks queued with GLib.idle_add
    todo,                   \* remaining steps of the callback each thread runs
    waited,                 \* seconds spent in the current Popen.wait
    handler,                \* the callback the main thread is running
    last_stop,              \* what the last stop_* call found and did
    commands                \* user commands so far

engine == <<process, stopped_intentionally, radio, current_stream_index,
            elapsed_timer, status_label>>
playlist == <<all_filter, selected, shuffle_mode, sf2_selected>>
catalog == <<all_store, favourites, search_text, visible, search_pending, favourites_file,
             all_files, loader>>
streaming == <<stream_title, track_thread, readers>>
world == <<procs, nextPid, monitors>>
control == <<idle_queue, todo, waited, handler, last_stop, commands>>
vars == <<engine, playlist, catalog, streaming, world, control>>

fluidsynth_process == process["fluidsynth"]
xmp_process == process["xmp"]
mplayer_process == process["mplayer"]

\* self.is_playing()
is_playing == fluidsynth_process # 0 \/ xmp_process # 0 \/ radio

\* A process that was never spawned.  alive, rc and stderr are the operating
\* system's view of the process; the other fields record what the program
\* did to it: sigterm (terminate() reached it while it was alive), stopped
\* (stop_* set the intentional-stop flag while the handle named it), errs and
\* advs (how many error and on_next_auto callbacks the monitor threads queued
\* for its exit).
NoProc == [kind |-> "none", alive |-> FALSE, rc |-> 0, stderr |-> "",
           sigterm |-> FALSE, stopped |-> FALSE, errs |-> 0, advs |-> 0]
NoMonitor == [kind |-> "none", pc |-> "none", process |-> 0]
\* A reader thread that was never started.  status, metaint and body are the
\* response it got; pending holds the titles of the frame it has parsed and
\* not yet published; sent and events record the titles the server put into
\* the stream and the titles the thread published.
NoReader == [pc |-> "none", status |-> "none", metaint |-> 0, body |-> <<>>,
             pending |-> <<>>, sent |-> <<>>, events |-> <<>>]
NoHandler == [name |-> "none", origin |-> 0, stale |-> FALSE]
NoStop == [k |-> "none", live |-> FALSE]
\* The reload thread before it is started: k is the renderer its stop call is
\* about, process the Popen object its wait() is blocked on, runs the number
\* of times the thread was started.
NoLoader == [pc |-> "none", k |-> "fluidsynth", process |-> 0, runs |-> 0]

\* ------------------------------------------------------------ the catalog
\* Strings the filter looks into are sequences of characters.
\* str.lower(), over the letters the runs use.
Lower(s) == [i \in 1..Len(s) |-> IF s[i] = "A" THEN "a" ELSE s[i]]

\* sub in s, for a non-empty sub.
Contains(sub, s) ==
    \E i \in 1..(Len(s) - Len(sub) + 1) : SubSeq(s, i, i + Len(sub) - 1) = sub

\* s.lstrip("*")
RECURSIVE LStrip(_)
LStrip(s) == IF s # <<>> /\ Head(s) = "*" THEN LStrip(Tail(s)) ELSE s

\* The display name append_file_to_store gives a file.
DisplayName(basename, is_favourite) ==
    IF is_favourite THEN <<"*">> \o basename ELSE basename

\* file_filter_func(model, iter, data) for a row and the text of the entry.
file_filter_func(row, text) ==
    LET text_lower == Lower(text)
    IN  IF text_lower = <<>> THEN TRUE
        ELSE \/ Contains(text_lower, Lower(row.name))
             \/ Contains(text_lower, Lower(row.folder))

\* all_filter.refilter(): the rows of the store the filter function keeps, in
\* the order of the store.
Refilter(store, text) ==
    SelectSeq([i \in 1..Len(store) |-> i], LAMBDA i : file_filter_func(store[i], text))

\* What the tree view shows of the visible rows.
KindsOf(store, rows) == [j \in 1..Len(rows) |-> store[rows[j]].kind]

\* The selection after a refilter.  A selected row that stays visible stays
\* selected.  When the filter hides the selected row, GtkTreeView either drops
\* the selection or moves the cursor to the row that took its place (the last
\* row when there is none); which one depends on the GTK version.
Reselect(rows, sel, newrows) ==
    IF sel = 0 THEN {0}
    ELSE IF \E j \in 1..Len(newrows) : newrows[j] = rows[sel]
         THEN {j \in 1..Len(newrows) : newrows[j] = rows[sel]}
         ELSE LET before == Cardinality({j \in 1..Len(newrows) : newrows[j] < rows[sel]})
              IN  {0} \cup (IF newrows = <<>> THEN {}
                            ELSE IF before < Len(newrows) THEN {before + 1}
                            ELSE {Len(newrows)})

\* ----------------------------------------------------- the favourites file
\* A path is a sequence of characters.  "0x80" stands for a byte of a file
\* name that is not UTF-8: os.walk hands it over as a lone surrogate.
Undecodable == "0x80"

\* os.path.join(root, file) for a folder, a base name and an extension.
PathOf(folder, basename, kind) == <<"/">> \o folder \o <<"/">> \o basename \o <<".", kind>>

\* The paths of a set of rows of the store.
PathsOf(store, rows) == {store[i].path : i \in rows}

\* f.write(f"{file_path}\n") with encoding="utf-8" raises UnicodeEncodeError
\* for a path that holds a lone surrogate.
Encodable(path) == \A i \in 1..Len(path) : path[i] # Undecodable

\* The orders in which Python may iterate over a set.
Orders(S) ==
    {order \in [1..Cardinality(S) -> S] :
        \A i, j \in 1..Cardinality(S) : i # j => order[i] # order[j]}

\* save_favourites: the file is truncated, the paths are written one per line
\* in the order of the iteration; the first write that raises ends the loop
\* and the exception is swallowed, the file keeps what was written before.
RECURSIVE WriteLines(_)
WriteLines(order) ==
    IF order = <<>> \/ ~Encodable(Head(order)) THEN <<>>
    ELSE Head(order) \o <<"\n">> \o WriteLines(Tail(order))

save_favourites(paths) == {WriteLines(order) : order \in Orders(paths)}

\* The lines of a text, without their line ends.
RECURSIVE Lines(_, _)
Lines(text, line) ==
    IF text = <<>> THEN (IF line = <<>> THEN <<>> ELSE <<line>>)
    ELSE IF Head(text) = "\n" THEN <<line>> \o Lines(Tail(text), <<>>)
    ELSE Lines(Tail(text), Append(line, Head(text)))

\* os.path.abspath for a path without "." and ".." parts; the working
\* directory is /w.
AbsPath(path) == IF Head(path) = "/" THEN path ELSE <<"/", "w", "/">> \o path

\* load_favourites: the set of the normalized non-blank lines of the file.
load_favourites(text) ==
    LET lines == Lines(text, <<>>)
    IN  {AbsPath(lines[i]) : i \in {j \in 1..Len(lines) : lines[j] # <<>>}}

\* The file lists of the runs: MIDI files and module files alternate.
Views == {[i \in 1..n |-> IF i % 2 = 1 THEN "mid" ELSE "mod"] : n \in 0..MaxFiles}

\* Base names and folder names of the files of the runs.
PlainNames == {<<"a">>}
PlainFolders == {<<"d">>}

\* The state after __init__ and load_all_files, for files whose base names
\* and folder names are drawn from the given sets.
InitOf(names, folders) ==
    /\ process = [k \in Backends |-> 0]
    /\ stopped_intentionally = [k \in Renderers |-> FALSE]
    /\ radio = FALSE
    /\ current_stream_index = 0
    /\ elapsed_timer = FALSE
    /\ status_label = ""
    /\ all_filter \in Views
    /\ favourites \in SUBSET (1..Len(all_filter))
    /\ \E name \in [1..Len(all_filter) -> names], folder \in [1..Len(all_filter) -> folders] :
           all_store = [i \in 1..Len(all_filter) |->
                           [name |-> DisplayName(name[i], i \in favourites),
                            folder |-> folder[i],
                            kind |-> all_filter[i],
                            path |-> PathOf(folder[i], name[i], all_filter[i])]]
    /\ \A i, j \in 1..Len(all_store) : all_store[i].path = all_store[j].path => i = j
    /\ favourites_file \in save_favourites(PathsOf(all_store, favourites))
    /\ load_favourites(favourites_file) = PathsOf(all_store, favourites)
    /\ all_files = [i \in 1..Len(all_store) |-> all_store[i].path]
    /\ loader = NoLoader
    /\ search_text = <<>>
    /\ visible = [i \in 1..Len(all_filter) |-> i]
    /\ search_pending = FALSE
    /\ selected = 0
    /\ shuffle_mode = FALSE
    /\ sf2_selected \in BOOLEAN
    /\ stream_title = <<"Unassigned title">>
    /\ track_thread = 0
    /\ readers = [p \in Pids |-> NoReader]
    /\ procs = [p \in Pids |-> NoProc]
    /\ nextPid = 1
    /\ monitors = [p \in Pids |-> NoMonitor]
    /\ idle_queue = <<>>
    /\ todo = [t \in Threads |-> <<>>]
    /\ waited = [t \in Threads |-> 0]
    /\ handler = NoHandler
    /\ last_stop = NoStop
    /\ commands = 0

Init == InitOf(PlainNames, PlainFolders)

\* ------------------------------------------------------------ processes
\* Popen.terminate(): send_signal polls first, so an exited process gets nothing.
Terminate(ps, h) ==
    IF h # 0 /\ ps[h].alive THEN [ps EXCEPT ![h].sigterm = TRUE] ELSE ps

\* Popen.kill(): SIGKILL cannot be caught; returncode is -9.
Kill(ps, h) ==
    [ps EXCEPT ![h].alive = FALSE, ![h].rc = -SIGKILL]

\* subprocess.Popen(...) succeeded: the new process and, for a renderer, the
\* monitor thread started right after it.
Spawn(k) ==
    /\ nextPid <= MaxProcs
    /\ procs' = [procs EXCEPT ![nextPid] = [NoProc EXCEPT !.kind = k, !.alive = TRUE]]
    /\ monitors' = IF k \in Renderers
                   THEN [monitors EXCEPT ![nextPid] = [kind |-> k, pc |-> "start", process |-> 0]]
                   ELSE monitors
    /\ nextPid' = nextPid + 1

\* The exit codes a process can end with: on its own 0 or a failure code;
\* once SIGTERM was sent, death by the signal (-15) or an exit of its own
\* that was already under way or that its signal handler chose.
ExitCodes(p) ==
    IF procs[p].sigterm THEN OwnExitCodes \cup {-SIGTERM} ELSE OwnExitCodes

\* A process ends (the renderer finished the track, failed, or died of SIGTERM).
ProcExit(p) ==
    /\ procs[p].alive
    /\ \E rc \in ExitCodes(p), err \in {"", "error"} :
          /\ (err = "error") => rc = 1
          /\ procs' = [procs EXCEPT ![p].alive = FALSE, ![p].rc = rc, ![p].stderr = err]
    /\ UNCHANGED <<engine, playlist, catalog, streaming, nextPid, monitors, control>>

\* ------------------------------------------------- steps of a callback
Continue(t, rest) ==
    /\ todo' = [todo EXCEPT ![t] = rest]
    /\ handler' = IF t = "main" /\ rest = <<>> THEN NoHandler ELSE handler

At(t, op) == todo[t] # <<>> /\ Head(todo[t]) = op

\* A stop that sets the intentional-stop flag whether or not a handle exists.
StopBeginAlwaysFlag(t, k) ==
    /\ At(t, <<"stop", k>>)
    /\ last_stop' = [k |-> k, live |-> process[k] # 0]
    /\ stopped_intentionally' = [stopped_intentionally EXCEPT ![k] = TRUE]
    /\ IF process[k] # 0
       THEN /\ procs' = [procs EXCEPT ![process[k]].stopped = TRUE]
            /\ Continue(t, <<<<"terminate", k>>, <<"wait", k>>>> \o Tail(todo[t]))
            /\ UNCHANGED elapsed_timer
       ELSE /\ elapsed_timer' = FALSE
            /\ Continue(t, Tail(todo[t]))
            /\ UNCHANGED procs
    /\ UNCHANGED <<process, radio, current_stream_index, status_label,
                   playlist, catalog, streaming, nextPid, monitors, idle_queue, waited, commands>>

\* stop_fluidsynth / stop_xmp up to terminate(): the flag is set when a handle
\* exists; with no handle only the progress timer is removed.
StopBegin(t, k) ==
    /\ At(t, <<"stop", k>>)
    /\ last_stop' = [k |-> k, live |-> process[k] # 0]
    /\ IF process[k] # 0
       THEN /\ stopped_intentionally' = [stopped_intentionally EXCEPT ![k] = TRUE]
            /\ procs' = [procs EXCEPT ![process[k]].stopped = TRUE]
            /\ Continue(t, <<<<"terminate", k>>, <<"wait", k>>>> \o Tail(todo[t]))
            /\ UNCHANGED elapsed_timer
       ELSE /\ elapsed_timer' = FALSE
            /\ Continue(t, Tail(todo[t]))
            /\ UNCHANGED <<stopped_intentionally, procs>>
    /\ UNCHANGED <<process, radio, current_stream_index, status_label,
                   playlist, catalog, streaming, nextPid, monitors, idle_queue, waited, commands>>

\* self.<k>_process.terminate()
StopTerminate(t, k) ==
    /\ At(t, <<"terminate", k>>)
    /\ process[k] # 0
    /\ procs' = Terminate(procs, process[k])
    /\ waited' = [waited EXCEPT ![t] = 0]
    /\ Continue(t, Tail(todo[t]))
    /\ UNCHANGED <<engine, playlist, catalog, streaming, nextPid, monitors, idle_queue, last_stop, commands>>

\* The end of stop_fluidsynth / stop_xmp: the handle is cleared, the status
\* set, the progress timer removed.
StopFinish(t, k) ==
    /\ process' = [process EXCEPT ![k] = 0]
    /\ status_label' = "Playback Stopped"
    /\ elapsed_timer' = FALSE
    /\ waited' = [waited EXCEPT ![t] = 0]
    /\ Continue(t, Tail(todo[t]))
    /\ UNCHANGED <<stopped_intentionally, radio, current_stream_index,
                   playlist, catalog, streaming, nextPid, monitors, idle_queue, last_stop, commands>>

\* wait(timeout=2) returns: the process has exited.
StopWaitReaped(t, k) ==
    /\ At(t, <<"wait", k>>)
    /\ process[k] # 0
    /\ ~procs[process[k]].alive
    /\ StopFinish(t, k)
    /\ UNCHANGED procs

\* One more second of wait(timeout=2) passes with the process still running.
StopWaitTick(t, k) ==
    /\ At(t, <<"wait", k>>)
    /\ process[k] # 0
    /\ procs[process[k]].alive
    /\ waited[t] < StopTimeout
    /\ waited' = [waited EXCEPT ![t] = @ + 1]
    /\ UNCHANGED <<engine, playlist, catalog, streaming, world, idle_queue, todo, handler, last_stop, commands>>

\* A stop that calls kill() without having waited out the timeout.
StopWaitKillEarly(t, k) ==
    /\ At(t, <<"wait", k>>)
    /\ process[k] # 0
    /\ procs[process[k]].alive
    /\ procs' = Kill(procs, process[k])
    /\ StopFinish(t, k)

\* wait(timeout=2) raises TimeoutExpired: kill().
StopWaitKill(t, k) ==
    /\ At(t, <<"wait", k>>)
    /\ process[k] # 0
    /\ procs[process[k]].alive
    /\ waited[t] = StopTimeout
    /\ procs' = Kill(procs, process[k])
    /\ StopFinish(t, k)

\* threading.Thread.is_alive() of a reader thread; 0 is no thread.
ReaderAlive(r) == r # 0 /\ readers[r].pc \notin {"none", "done"}

\* stop_stream: terminate() without a wait, then the handle is cleared.
StopStream(t) ==
    /\ At(t, <<"stop_stream", "mplayer">>)
    /\ last_stop' = [k |-> "mplayer", live |-> mplayer_process # 0]
    /\ radio' = FALSE
    /\ procs' = Terminate(procs, mplayer_process)
    /\ process' = [process EXCEPT !["mplayer"] = 0]
    /\ Continue(t, (IF ReaderAlive(track_thread) THEN <<<<"join", "track_thread">>>> ELSE <<>>)
                   \o Tail(todo[t]))
    /\ UNCHANGED <<stopped_intentionally, current_stream_index, elapsed_timer,
                   status_label, playlist, catalog, streaming, nextPid, monitors, idle_queue, waited,
                   commands>>

\* self.track_thread.join(timeout=1) returns: the thread has ended, or the
\* second has passed with the thread still in a read or a sleep.
JoinTrackThread(t) ==
    /\ At(t, <<"join", "track_thread">>)
    /\ Continue(t, Tail(todo[t]))
    /\ UNCHANGED <<engine, playlist, catalog, streaming, world, idle_queue, waited, last_stop,
                   commands>>

\* ------------------------------------------------------------- on_play
\* The backend on_play chooses from the extension of the selected file.
BackendOf(kind) == IF kind = "mid" THEN "fluidsynth" ELSE "xmp"

\* on_play that returns without a file and leaves the status text alone.
PlayNoFileQuiet(t) ==
    /\ At(t, <<"play", "">>)
    /\ selected = 0
    /\ Continue(t, Tail(todo[t]))
    /\ UNCHANGED <<engine, playlist, catalog, streaming, world, idle_queue, waited, last_stop, commands>>

\* get_selected_file() is None
PlayNoFile(t) ==
    /\ At(t, <<"play", "">>)
    /\ selected = 0
    /\ status_label' = "No file selected"
    /\ Continue(t, Tail(todo[t]))
    /\ UNCHANGED <<process, stopped_intentionally, radio, current_stream_index,
                   elapsed_timer, playlist, catalog, streaming, world, idle_queue, waited, last_stop, commands>>

\* a MIDI file and get_selected_sf2() is None
PlayNoSoundfont(t) ==
    /\ At(t, <<"play", "">>)
    /\ selected # 0
    /\ all_filter[selected] = "mid"
    /\ ~sf2_selected
    /\ status_label' = "No SoundFont selected"
    /\ Continue(t, Tail(todo[t]))
    /\ UNCHANGED <<process, stopped_intentionally, radio, current_stream_index,
                   elapsed_timer, playlist, catalog, streaming, world, idle_queue, waited, last_stop, commands>>

\* get_selected_file() alone decides: the soundfont is not looked at.
CanPlayAnyFile ==
    selected # 0

CanPlay ==
    /\ selected # 0
    /\ all_filter[selected] = "mid" => sf2_selected

\* The flag is reset, Popen succeeds, the monitor thread is started and the
\* progress timer is registered when the length of the track is known.
PlayStart(t) ==
    /\ At(t, <<"play", "">>)
    /\ CanPlay
    /\ LET k == BackendOf(all_filter[selected]) IN
          /\ Spawn(k)
          /\ stopped_intentionally' = [stopped_intentionally EXCEPT ![k] = FALSE]
          /\ process' = [process EXCEPT ![k] = nextPid]
    /\ status_label' = "Playing"
    /\ \E total_length \in BOOLEAN :
          elapsed_timer' = IF total_length THEN TRUE ELSE elapsed_timer
    /\ Continue(t, Tail(todo[t]))
    /\ UNCHANGED <<radio, current_stream_index, playlist, catalog, streaming, idle_queue, waited, last_stop, commands>>

\* Popen raises: the handle is set to None; only the xmp branch sets the status.
PlayFail(t) ==
    /\ At(t, <<"play", "">>)
    /\ CanPlay
    /\ LET k == BackendOf(all_filter[selected]) IN
          /\ stopped_intentionally' = [stopped_intentionally EXCEPT ![k] = FALSE]
          /\ process' = [process EXCEPT ![k] = 0]
          /\ status_label' = IF k = "xmp" THEN "Error: Unable to play" ELSE status_label
    /\ Continue(t, Tail(todo[t]))
    /\ UNCHANGED <<radio, current_stream_index, elapsed_timer, playlist, catalog, streaming, world,
                   idle_queue, waited, last_stop, commands>>

\* ---------------------------------------------------------- the cursor
\* Sequential mode of on_next / on_next_auto: the row after the selected one,
\* no row after the last one, the first row when nothing is selected.
NextRow(sel, n) ==
    IF sel # 0 THEN (IF sel < n THEN sel + 1 ELSE 0)
    ELSE (IF n > 0 THEN 1 ELSE 0)

\* on_previous that stops at the first row instead of going to the last.
PreviousRowNoWrap(sel, n) ==
    IF sel # 0 THEN (IF sel > 1 THEN sel - 1 ELSE 0)
    ELSE (IF n > 0 THEN n ELSE 0)

\* Sequential mode of on_previous: the row before, the last row from the
\* first one, the last row when nothing is selected.
PreviousRow(sel, n) ==
    IF sel # 0 THEN (IF sel > 1 THEN sel - 1 ELSE n)
    ELSE (IF n > 0 THEN n ELSE 0)

\* A shuffle that never picks the last visible row of a view of several rows.
RandomRowsNotLast(n) == IF n > 1 THEN 1..(n - 1) ELSE IF n = 1 THEN {1} ELSE {0}

\* Shuffle mode: random.choice over the visible rows.
RandomRows(n) == IF n > 0 THEN 1..n ELSE {0}

NextCursor(t) ==
    /\ At(t, <<"next_cursor", "">>)
    /\ selected' \in IF shuffle_mode THEN RandomRows(Len(all_filter))
                     ELSE {NextRow(selected, Len(all_filter))}
    /\ Continue(t, Tail(todo[t]))
    /\ UNCHANGED <<engine, all_filter, catalog, streaming, shuffle_mode, sf2_selected, world,
                   idle_queue, waited, last_stop, commands>>

PreviousCursor(t) ==
    /\ At(t, <<"previous_cursor", "">>)
    /\ selected' \in IF shuffle_mode THEN RandomRows(Len(all_filter))
                     ELSE {PreviousRow(selected, Len(all_filter))}
    /\ Continue(t, Tail(todo[t]))
    /\ UNCHANGED <<engine, all_filter, catalog, streaming, shuffle_mode, sf2_selected, world,
                   idle_queue, waited, last_stop, commands>>

\* on_pause after its stops
PauseStatus(t) ==
    /\ At(t, <<"pause_status", "">>)
    /\ status_label' = "Playback Stopped"
    /\ Continue(t, Tail(todo[t]))
    /\ UNCHANGED <<process, stopped_intentionally, radio, current_stream_index,
                   elapsed_timer, playlist, catalog, streaming, world, idle_queue, waited, last_stop, commands>>

\* ------------------------------------------------------------- the radio
\* The titles of self.streams.
StationTitles == <<"LiquidDOS Classic", "LiquidDOS Doom", "Rainwave Chiptune">>

\* on_radio with the radio active: the next station
NextStream(t) ==
    /\ At(t, <<"next_stream", "">>)
    /\ current_stream_index' = (current_stream_index + 1) % NumStreams
    /\ Continue(t, Tail(todo[t]))
    /\ UNCHANGED <<process, stopped_intentionally, radio, elapsed_timer,
                   status_label, playlist, catalog, streaming, world, idle_queue, waited, last_stop, commands>>

\* start_stream after its stop_stream: mplayer is spawned
StartStream(t) ==
    /\ At(t, <<"start_stream", "">>)
    /\ mplayer_process = 0
    /\ Spawn("mplayer")
    /\ radio' = TRUE
    /\ stream_title' = <<StationTitles[current_stream_index + 1]>>
    /\ process' = [process EXCEPT !["mplayer"] = nextPid]
    /\ status_label' = "Connecting"
    /\ track_thread' = nextPid
    /\ readers' = [readers EXCEPT ![nextPid] = [NoReader EXCEPT !.pc = "request"]]
    /\ Continue(t, Tail(todo[t]))
    /\ UNCHANGED <<stopped_intentionally, current_stream_index, elapsed_timer,
                   playlist, catalog, idle_queue, waited, last_stop, commands>>

\* start_stream: Popen raises (mplayer missing)
StartStreamFail(t) ==
    /\ At(t, <<"start_stream", "">>)
    /\ mplayer_process = 0
    /\ radio' = FALSE
    /\ stream_title' = <<StationTitles[current_stream_index + 1]>>
    /\ status_label' \in {"mplayer not found.", "Failed to start streaming."}
    /\ Continue(t, Tail(todo[t]))
    /\ UNCHANGED <<process, stopped_intentionally, current_stream_index,
                   elapsed_timer, playlist, catalog, track_thread, readers, world,
                   idle_queue, waited, last_stop, commands>>

\* ----------------------------------------------- the ICY metadata reader
\* The first n elements of a sequence (fewer at its end), and the rest.
Take(seq, n) == SubSeq(seq, 1, IF n < Len(seq) THEN n ELSE Len(seq))
Drop(seq, n) == SubSeq(seq, (IF n < Len(seq) THEN n ELSE Len(seq)) + 1, Len(seq))

\* bytes.rstrip(b'\0')
RECURSIVE RStripNul(_)
RStripNul(seq) ==
    IF seq # <<>> /\ seq[Len(seq)] = "NUL" THEN RStripNul(SubSeq(seq, 1, Len(seq) - 1))
    ELSE seq

\* str.split(sep), with the part being collected.
RECURSIVE Split(_, _, _)
Split(str, sep, part) ==
    IF str = <<>> THEN <<part>>
    ELSE IF Head(str) = sep THEN <<part>> \o Split(Tail(str), sep, <<>>)
    ELSE Split(Tail(str), sep, Append(part, Head(str)))

\* str.startswith(prefix)
StartsWith(str, prefix) ==
    Len(str) >= Len(prefix) /\ SubSeq(str, 1, Len(prefix)) = prefix

\* str.strip("'")
RECURSIVE StripQuotes(_)
StripQuotes(str) ==
    IF str # <<>> /\ Head(str) = "'" THEN StripQuotes(Tail(str))
    ELSE IF str # <<>> /\ str[Len(str)] = "'" THEN StripQuotes(SubSeq(str, 1, Len(str) - 1))
    ELSE str

\* "StreamTitle='"
TitlePrefix == <<"S", "t", "r", "e", "a", "m", "T", "i", "t", "l", "e", "=", "'">>

\* part.split("=", 1)[1].strip("'") for a part that starts with the prefix.
TitleOf(part) == StripQuotes(SubSeq(part, Len(TitlePrefix), Len(part)))

\* The titles the loop over metadata_str.split(';') finds, in order.
TitlesOf(metadata_str) ==
    LET parts == Split(metadata_str, ";", <<>>)
        found == SelectSeq(parts, LAMBDA part : StartsWith(part, TitlePrefix))
    IN  [i \in 1..Len(found) |-> TitleOf(found[i])]

\* What a server sends for a title: metaint payload bytes, the length byte
\* and the frame StreamTitle='title'; padded with NUL to 16 times that byte.
IcyBlock(metaint, title) ==
    LET frame == TitlePrefix \o title \o <<"'", ";">>
        n == (Len(frame) + 15) \div 16
    IN  [i \in 1..metaint |-> "p"] \o <<n>> \o frame
        \o [i \in 1..(16 * n - Len(frame)) |-> "NUL"]

RECURSIVE IcyBody(_, _)
IcyBody(metaint, titles) ==
    IF titles = <<>> THEN <<>>
    ELSE IcyBlock(metaint, Head(titles)) \o IcyBody(metaint, Tail(titles))

\* The response of a server that sends the given titles every metaint bytes.
IcyResponse(metaint, titles) ==
    [status |-> "200", metaint |-> metaint, body |-> IcyBody(metaint, titles),
     sent |-> titles]

\* The responses of the runs: the request fails, the server sends no
\* icy-metaint header, the server sends one title.
PlainResponses ==
    {[status |-> "error", metaint |-> 0, body |-> <<>>, sent |-> <<>>],
     [status |-> "200", metaint |-> 0, body |-> <<"p">>, sent |-> <<>>],
     IcyResponse(1, <<<<"X">>>>)}

\* GLib.idle_add(self.status_label.set_text, text) from the reader r, when
\* the reader finds self.radio set.
ReaderIdleAdd(r, text) ==
    idle_queue' = IF radio
                  THEN Append(idle_queue, [cb |-> "set_text", kind |-> text, pid |-> r])
                  ELSE idle_queue

\* requests.get returns or raises; without icy-metaint the thread ends.
ReaderRequest(r, responses) ==
    /\ readers[r].pc = "request"
    /\ \E response \in responses :
          IF response.status = "error"
          THEN /\ readers' = [readers EXCEPT ![r].pc = "done", ![r].status = "error"]
               /\ ReaderIdleAdd(r, "Streaming Radio...")
          ELSE IF response.metaint = 0
          THEN /\ readers' = [readers EXCEPT ![r].pc = "done", ![r].status = response.status]
               /\ ReaderIdleAdd(r, "Streaming without metadata.")
          ELSE /\ readers' = [readers EXCEPT ![r].pc = "loop",
                                             ![r].status = response.status,
                                             ![r].metaint = response.metaint,
                                             ![r].body = response.body,
                                             ![r].sent = response.sent]
               /\ UNCHANGED idle_queue
    /\ UNCHANGED <<engine, playlist, catalog, stream_title, track_thread, world,
                   todo, waited, handler, last_stop, commands>>

\* One turn of "while self.radio": the payload, the length byte and the
\* metadata are read and the titles of the metadata found.
ReaderRead(r) ==
    /\ readers[r].pc = "loop"
    /\ LET stream_data == Take(readers[r].body, readers[r].metaint)
           after_data == Drop(readers[r].body, readers[r].metaint)
           meta_length == IF after_data = <<>> THEN 0 ELSE Head(after_data) * 16
           metadata == RStripNul(Take(Tail(after_data), meta_length))
       IN  IF ~radio \/ stream_data = <<>> \/ after_data = <<>>
           THEN readers' = [readers EXCEPT ![r].pc = "done"]
           ELSE readers' = [readers EXCEPT
                   ![r].body = Drop(Tail(after_data), meta_length),
                   ![r].pending = IF meta_length > 0 THEN TitlesOf(metadata) ELSE <<>>,
                   ![r].pc = IF meta_length > 0 /\ TitlesOf(metadata) # <<>>
                             THEN "publish" ELSE "loop"]
    /\ UNCHANGED <<engine, playlist, catalog, stream_title, track_thread, world, control>>

\* "if self.radio:" for a title found: self.stream_title is written and the
\* status text queued.
ReaderPublish(r) ==
    /\ readers[r].pc = "publish"
    /\ LET title == Head(readers[r].pending)
           rest == Tail(readers[r].pending)
           new_title == IF title # <<>> THEN title ELSE stream_title
       IN  /\ stream_title' = IF radio THEN new_title ELSE stream_title
           /\ readers' = [readers EXCEPT
                   ![r].pending = rest,
                   ![r].events = IF radio THEN Append(@, new_title) ELSE @,
                   ![r].pc = IF rest = <<>> THEN "loop" ELSE "publish"]
    /\ ReaderIdleAdd(r, "Now Streaming")
    /\ UNCHANGED <<engine, playlist, catalog, track_thread, world, todo, waited, handler,
                   last_stop, commands>>

\* --------------------------------------------- callbacks of the main loop
OnPlayScript ==
    <<<<"stop", "fluidsynth">>, <<"stop", "xmp">>, <<"stop_stream", "mplayer">>,
      <<"play", "">>>>
OnPauseScript ==
    <<<<"stop", "fluidsynth">>, <<"stop", "xmp">>, <<"stop_stream", "mplayer">>,
      <<"pause_status", "">>>>
OnNextScript ==
    <<<<"stop_stream", "mplayer">>, <<"stop", "fluidsynth">>, <<"stop", "xmp">>,
      <<"next_cursor", "">>>> \o OnPlayScript
OnPreviousScript ==
    <<<<"stop_stream", "mplayer">>, <<"stop", "fluidsynth">>, <<"stop", "xmp">>,
      <<"previous_cursor", "">>>> \o OnPlayScript
OnNextAutoScript ==
    <<<<"stop", "fluidsynth">>, <<"stop", "xmp">>, <<"next_cursor", "">>>>
    \o OnPlayScript
StartStreamScript ==
    <<<<"stop_stream", "mplayer">>, <<"start_stream", "">>>>
\* on_radio that starts the stream without stopping the renderers.
OnRadioScriptNoStop ==
    IF ~radio
    THEN StartStreamScript
    ELSE <<<<"stop_stream", "mplayer">>, <<"next_stream", "">>>> \o StartStreamScript

OnRadioScript ==
    IF ~radio
    THEN <<<<"stop", "xmp">>, <<"stop", "fluidsynth">>>> \o StartStreamScript
    ELSE <<<<"stop_stream", "mplayer">>, <<"next_stream", "">>>> \o StartStreamScript

\* The main loop is between two callbacks.
MainIdle == todo["main"] = <<>>

\* The main loop calls a callback connected to a widget.
Call(name, script) ==
    /\ MainIdle
    /\ commands < MaxCommands
    /\ commands' = commands + 1
    /\ todo' = [todo EXCEPT !["main"] = script]
    /\ handler' = [name |-> name, origin |-> 0, stale |-> FALSE]

on_play ==
    /\ Call("on_play", OnPlayScript)
    /\ UNCHANGED <<engine, playlist, catalog, streaming, world, idle_queue, waited, last_stop>>

on_pause ==
    /\ Call("on_pause", OnPauseScript)
    /\ UNCHANGED <<engine, playlist, catalog, streaming, world, idle_queue, waited, last_stop>>

on_next ==
    /\ Call("on_next", OnNextScript)
    /\ UNCHANGED <<engine, playlist, catalog, streaming, world, idle_queue, waited, last_stop>>

on_previous ==
    /\ Call("on_previous", OnPreviousScript)
    /\ UNCHANGED <<engine, playlist, catalog, streaming, world, idle_queue, waited, last_stop>>

on_radio ==
    /\ Call("on_radio", OnRadioScript)
    /\ UNCHANGED <<engine, playlist, catalog, streaming, world, idle_queue, waited, last_stop>>

\* A row of the soundfont list is activated.
on_sf2_selected ==
    /\ sf2_selected
    /\ Call("on_sf2_selected", OnPlayScript)
    /\ UNCHANGED <<engine, playlist, catalog, streaming, world, idle_queue, waited, last_stop>>

\* A row of the file list is activated: it is the selected row.
on_file_selected(i) ==
    /\ i \in 1..Len(all_filter)
    /\ selected' = i
    /\ Call("on_file_selected", OnPlayScript)
    /\ UNCHANGED <<engine, all_filter, catalog, streaming, shuffle_mode, sf2_selected, world,
                   idle_queue, waited, last_stop>>

\* The Shuffle Mode menu item is toggled; the status text is set from the
\* idle queue.
on_shuffle_mode_toggled ==
    /\ MainIdle
    /\ commands < MaxCommands
    /\ commands' = commands + 1
    /\ shuffle_mode' = ~shuffle_mode
    /\ idle_queue' = Append(idle_queue,
                            [cb |-> "set_text",
                             kind |-> IF shuffle_mode THEN "Shuffle Mode Disabled"
                                      ELSE "Shuffle Mode Enabled",
                             pid |-> 0])
    /\ UNCHANGED <<engine, all_filter, catalog, streaming, selected, sf2_selected, world, todo,
                   waited, handler, last_stop>>

\* ------------------------------------------------ favourites and filter
\* Texts typed into the search entry.
SearchTexts == {<<>>, <<"*">>, <<"b">>}

\* A handler that runs to its end in one step of the main loop.
Command ==
    /\ MainIdle
    /\ commands < MaxCommands
    /\ commands' = commands + 1

\* The view and the selection after all_filter.refilter().
RefilterView(store, text) ==
    /\ visible' = Refilter(store, text)
    /\ all_filter' = KindsOf(store, visible')
    /\ selected' \in Reselect(visible, selected, visible')

\* A right click on a row of the file list: set_cursor selects it, nothing
\* is played.
on_treeview_button_press(i) ==
    /\ Command
    /\ i \in 1..Len(all_filter)
    /\ selected' = i
    /\ UNCHANGED <<engine, all_filter, shuffle_mode, sf2_selected, catalog, streaming, world,
                   idle_queue, todo, waited, handler, last_stop>>

\* The favourites, the store and the status text on_toggle_favourite leaves
\* for the row iter.
ToggleFavourite(store, favs, iter) ==
    LET display_name == store[iter].name
    IN  IF iter \in favs
        THEN [favourites |-> favs \ {iter},
              all_store |-> [store EXCEPT ![iter].name = LStrip(display_name)],
              status_label |-> "removed from favourites."]
        ELSE [favourites |-> favs \cup {iter},
              all_store |-> [store EXCEPT ![iter].name = <<"*">> \o display_name],
              status_label |-> "added to favourites."]

\* "Toggle favourite" of the context menu, on the selected file.
on_toggle_favourite ==
    /\ Command
    /\ selected # 0
    /\ LET toggled == ToggleFavourite(all_store, favourites, visible[selected])
       IN  /\ favourites' = toggled.favourites
           /\ all_store' = toggled.all_store
           /\ status_label' = toggled.status_label
           /\ favourites_file' \in save_favourites(PathsOf(all_store', favourites'))
           /\ RefilterView(all_store', search_text)
    /\ UNCHANGED <<process, stopped_intentionally, radio, current_stream_index,
                   elapsed_timer, shuffle_mode, sf2_selected, search_text,
                   search_pending, all_files, loader, streaming, world, idle_queue, todo,
                   waited, handler, last_stop>>

\* The user edits the search entry; "search-changed" is emitted after a delay.
search_entry_edited(text) ==
    /\ Command
    /\ text # search_text
    /\ search_text' = text
    /\ search_pending' = TRUE
    /\ UNCHANGED <<engine, playlist, all_store, favourites, visible, favourites_file,
                   all_files, loader, streaming, world, idle_queue, todo, waited, handler,
                   last_stop>>

\* The Favourites button.
on_fav ==
    /\ Command
    /\ IF search_text = <<"*">>
       THEN search_text' = <<>> /\ status_label' = "Filter: None"
       ELSE search_text' = <<"*">> /\ status_label' = "Filter: Favourites"
    /\ search_pending' = TRUE
    /\ RefilterView(all_store, search_text')
    /\ UNCHANGED <<process, stopped_intentionally, radio, current_stream_index,
                   elapsed_timer, shuffle_mode, sf2_selected, all_store, favourites,
                   favourites_file, all_files, loader, streaming, world, idle_queue, todo,
                   waited, handler, last_stop>>

\* The "search-changed" signal of the search entry.
on_search_changed ==
    /\ MainIdle
    /\ search_pending
    /\ search_pending' = FALSE
    /\ visible' = Refilter(all_store, search_text)
    /\ all_filter' = KindsOf(all_store, visible')
    /\ selected' = IF visible' # <<>> THEN 1 ELSE 0
    /\ UNCHANGED <<engine, shuffle_mode, sf2_selected, all_store, favourites,
                   search_text, favourites_file, all_files, loader, streaming, world,
                   control>>

\* ------------------------------------------------ GLib.idle_add callbacks
\* An entry of the idle queue: the callback cb, its backend (for set_text the
\* text) in kind, and in pid the process whose exit queued it.
IdleReady(cb) ==
    /\ MainIdle
    /\ idle_queue # <<>>
    /\ Head(idle_queue).cb = cb

stop_playback_timer ==
    /\ IdleReady("stop_playback_timer")
    /\ idle_queue' = Tail(idle_queue)
    /\ elapsed_timer' = FALSE
    /\ UNCHANGED <<process, stopped_intentionally, radio, current_stream_index,
                   status_label, playlist, catalog, streaming, world, todo, waited, handler, last_stop, commands>>

\* GLib.idle_add(self.status_label.set_text, text)
set_text ==
    /\ IdleReady("set_text")
    /\ idle_queue' = Tail(idle_queue)
    /\ status_label' = Head(idle_queue).kind
    /\ UNCHANGED <<process, stopped_intentionally, radio, current_stream_index,
                   elapsed_timer, playlist, catalog, streaming, world, todo, waited, handler,
                   last_stop, commands>>

\* The queued on_next_auto starts; it is stale when a process was spawned
\* after the one whose exit queued it.
on_next_auto ==
    /\ IdleReady("on_next_auto")
    /\ idle_queue' = Tail(idle_queue)
    /\ LET o == Head(idle_queue).pid IN
          /\ todo' = [todo EXCEPT !["main"] = OnNextAutoScript]
          /\ handler' = [name |-> "on_next_auto", origin |-> o,
                         stale |-> nextPid > o + 1]
    /\ UNCHANGED <<engine, playlist, catalog, streaming, world, waited, last_stop, commands>>

\* handle_fluidsynth_error / handle_xmp_error
handle_error(k) ==
    /\ IdleReady("handle_error")
    /\ Head(idle_queue).kind = k
    /\ idle_queue' = Tail(idle_queue)
    /\ status_label' = IF k = "fluidsynth"
                       THEN "Error: fluidsynth failed to play the file."
                       ELSE "Error: xmp failed to play the file."
    /\ UNCHANGED <<process, stopped_intentionally, radio, current_stream_index,
                   elapsed_timer, playlist, catalog, streaming, world, todo, waited, handler,
                   last_stop, commands>>

\* ------------------------------------------------------- monitor threads
\* What communicate() hands back as stderr: the renderers are spawned with
\* stderr=subprocess.DEVNULL, so there is no pipe and the value is None.
Communicate(p) == "None"

\* 'error' in stderr_output.lower(); None has no lower(): AttributeError
HasErrorMarker(stderr_output) ==
    IF stderr_output = "None" THEN "AttributeError"
    ELSE IF stderr_output = "error" THEN "yes" ELSE "no"

\* The branch monitor_fluidsynth_output takes for an exit.
ClassifyFluidsynth(exit_code, flag, stderr_output) ==
    IF exit_code # 0
    THEN IF flag \/ exit_code = -SIGTERM THEN "intentional"
         ELSE IF HasErrorMarker(stderr_output) = "no" THEN "natural" ELSE "error"
    ELSE "natural"

\* A monitor that treats every unflagged exit of xmp as a natural end.
ClassifyXmpLenient(returncode, flag) ==
    IF returncode # 0
    THEN IF flag THEN "intentional" ELSE "natural"
    ELSE "natural"

\* The branch monitor_xmp_output takes for an exit.
ClassifyXmp(returncode, flag) ==
    IF returncode # 0
    THEN IF flag THEN "intentional" ELSE "error"
    ELSE "natural"

Classify(k, p) ==
    IF k = "fluidsynth"
    THEN ClassifyFluidsynth(procs[p].rc, stopped_intentionally[k], Communicate(p))
    ELSE ClassifyXmp(procs[p].rc, stopped_intentionally[k])

\* process = self.<k>_process, the first statement of the monitor thread
MonitorStart(m) ==
    /\ monitors[m].pc = "start"
    /\ LET h == process[monitors[m].kind] IN
          monitors' = [monitors EXCEPT ![m].process = h,
                                       ![m].pc = IF h = 0 THEN "done" ELSE "wait"]
    /\ UNCHANGED <<engine, playlist, catalog, streaming, procs, nextPid, control>>

\* communicate() / wait() returned: the exit is classified.
MonitorExit(m) ==
    /\ monitors[m].pc = "wait"
    /\ LET k == monitors[m].kind
           p == monitors[m].process
           verdict == Classify(k, p)
       IN /\ ~procs[p].alive
          /\ monitors' = [monitors EXCEPT ![m].pc = "done"]
          /\ stopped_intentionally' =
                IF verdict = "intentional"
                THEN [stopped_intentionally EXCEPT ![k] = FALSE]
                ELSE stopped_intentionally
          /\ idle_queue' =
                CASE verdict = "natural" ->
                        idle_queue \o <<[cb |-> "stop_playback_timer", kind |-> k, pid |-> p],
                                        [cb |-> "on_next_auto", kind |-> k, pid |-> p]>>
                  [] verdict = "error" ->
                        Append(idle_queue, [cb |-> "handle_error", kind |-> k, pid |-> p])
                  [] OTHER -> idle_queue
          /\ procs' = [procs EXCEPT ![p].errs = IF verdict = "error" THEN @ + 1 ELSE @,
                                    ![p].advs = IF verdict = "natural" THEN @ + 1 ELSE @]
    /\ UNCHANGED <<process, radio, current_stream_index, elapsed_timer, status_label,
                   playlist, catalog, streaming, nextPid, todo, waited, handler, last_stop, commands>>

\* ------------------------------------------------------ the specification
Step(t) ==
    \/ \E k \in Renderers :
          \/ StopBegin(t, k)
          \/ StopTerminate(t, k)
          \/ StopWaitReaped(t, k)
          \/ StopWaitTick(t, k)
          \/ StopWaitKill(t, k)
    \/ StopStream(t)
    \/ PlayNoFile(t)
    \/ PlayNoSoundfont(t)
    \/ PlayStart(t)
    \/ PlayFail(t)
    \/ NextCursor(t)
    \/ PreviousCursor(t)
    \/ PauseStatus(t)
    \/ NextStream(t)
    \/ StartStream(t)
    \/ StartStreamFail(t)
    \/ JoinTrackThread(t)

Next ==
    \/ \E t \in Threads : Step(t)
    \/ on_play
    \/ on_pause
    \/ on_next
    \/ on_previous
    \/ on_radio
    \/ on_sf2_selected
    \/ on_shuffle_mode_toggled
    \/ \E i \in 1..MaxFiles : on_treeview_button_press(i)
    \/ on_toggle_favourite
    \/ \E text \in SearchTexts : search_entry_edited(text)
    \/ on_fav
    \/ on_search_changed
    \/ set_text
    \/ \E i \in 1..MaxFiles : on_file_selected(i)
    \/ stop_playback_timer
    \/ on_next_auto
    \/ \E k \in Renderers : handle_error(k)
    \/ \E m \in Pids : MonitorStart(m)
    \/ \E m \in Pids : MonitorExit(m)
    \/ \E p \in Pids : ProcExit(p)
    \/ \E r \in Pids : ReaderRequest(r, PlainResponses)
    \/ \E r \in Pids : ReaderRead(r)
    \/ \E r \in Pids : ReaderPublish(r)

Spec == Init /\ [][Next]_vars

\* -------------------------------------------------- the radio on its own
\* Titles and metadata intervals of the servers: a title may hold the
\* character that separates the fields of the metadata.
IcyTitles == {<<"S", "o", "n", "g", " ", "X">>, <<"A", ";", "B">>}
IcyMetaints == {10}
\* A server that repeats the title of the song in two metadata frames.
IcyRepeated == <<<<"X">>, <<"X">>>>
IcyResponses ==
    {IcyResponse(metaint, <<title>>) : metaint \in IcyMetaints, title \in IcyTitles}
    \cup {IcyResponse(metaint, IcyRepeated) : metaint \in IcyMetaints}

\* The radio is started with no file in the catalog.
IcyInit == Init /\ all_filter = <<>> /\ ~sf2_selected

\* The steps of the main thread in on_radio.
IcyStep(t) ==
    \/ \E k \in Renderers : StopBegin(t, k)
    \/ StopStream(t)
    \/ JoinTrackThread(t)
    \/ NextStream(t)
    \/ StartStream(t)
    \/ StartStreamFail(t)

IcyNext ==
    \/ on_radio
    \/ \E t \in Threads : IcyStep(t)
    \/ set_text
    \/ \E p \in Pids : ProcExit(p)
    \/ \E r \in Pids : ReaderRequest(r, IcyResponses)
    \/ \E r \in Pids : ReaderRead(r)
    \/ \E r \in Pids : ReaderPublish(r)

IcySpec == IcyInit /\ [][IcyNext]_vars

\* ------------------------------------------------ the catalog on its own
\* File and folder names that may hold the character the program marks
\* favourites with.
FileNames == {<<"a">>, <<"*", "a">>}
FolderNames == {<<"d">>, <<"*", "d">>, <<Undecodable>>}

FilterInit == InitOf(FileNames, FolderNames)

\* The handlers that change the catalog, the filter or the selection without
\* touching the players.
FilterNext ==
    \/ \E i \in 1..MaxFiles : on_treeview_button_press(i)
    \/ on_toggle_favourite
    \/ \E text \in SearchTexts : search_entry_edited(text)
    \/ on_fav
    \/ on_search_changed

FilterSpec == FilterInit /\ [][FilterNext]_vars

\* ---------------------------------------------------- exporting a track
\* on_save: what it does depends on get_selected_file() and its extension.
\* A module file is exported between an on_pause and an on_play.
OnSaveScript ==
    IF selected = 0 THEN <<<<"save_status", "No file selected">>>>
    ELSE IF all_filter[selected] = "mid"
    THEN (IF sf2_selected THEN <<<<"export", "">>, <<"save_status", "">>>>
          ELSE <<<<"save_status", "No SoundFont selected">>>>)
    ELSE OnPauseScript \o <<<<"export", "">>>> \o OnPlayScript \o <<<<"save_status", "">>>>

on_save ==
    /\ Call("on_save", OnSaveScript)
    /\ UNCHANGED <<engine, playlist, catalog, streaming, world, idle_queue, waited, last_stop>>

\* The two subprocess.run(..., check=True) of the export return, or one of
\* them raises CalledProcessError: the status on_save ends with is decided.
ExportStep(t) ==
    /\ At(t, <<"export", "">>)
    /\ \E text \in {"Track saved", "Error: Unable to export track"} :
          Continue(t, SubSeq(todo[t], 2, Len(todo[t]) - 1) \o <<<<"save_status", text>>>>)
    /\ UNCHANGED <<engine, playlist, catalog, streaming, world, idle_queue, waited, last_stop,
                   commands>>

\* The status text on_save ends with.
SaveStatus(t) ==
    /\ todo[t] # <<>>
    /\ Head(todo[t])[1] = "save_status"
    /\ status_label' = Head(todo[t])[2]
    /\ Continue(t, Tail(todo[t]))
    /\ UNCHANGED <<process, stopped_intentionally, radio, current_stream_index,
                   elapsed_timer, playlist, catalog, streaming, world, idle_queue, waited,
                   last_stop, commands>>

\* The player with its Save button.
SaveNext ==
    \/ Next
    \/ on_save
    \/ \E t \in Threads : ExportStep(t)
    \/ \E t \in Threads : SaveStatus(t)

SaveSpec == Init /\ [][SaveNext]_vars

\* ------------------------------------------------- leaving the main loop
\* on_quit (Quit menu item, "destroy" of the window): the status text, the
\* three stops, Gtk.main_quit().
OnQuitScript ==
    <<<<"quit_status", "">>, <<"stop", "fluidsynth">>, <<"stop", "xmp">>,
      <<"stop_stream", "mplayer">>, <<"main_quit", "">>>>

on_quit ==
    /\ Call("on_quit", OnQuitScript)
    /\ UNCHANGED <<engine, playlist, catalog, streaming, world, idle_queue, waited, last_stop>>

\* SIGINT arrives: the handler calls Gtk.main_quit() and nothing else.
sigint_handler ==
    /\ Call("sigint_handler", <<<<"main_quit", "">>>>)
    /\ UNCHANGED <<engine, playlist, catalog, streaming, world, idle_queue, waited, last_stop>>

\* self.status_label.set_text("Attempting to Quit")
QuitStatus(t) ==
    /\ At(t, <<"quit_status", "">>)
    /\ status_label' = "Attempting to Quit"
    /\ Continue(t, Tail(todo[t]))
    /\ UNCHANGED <<process, stopped_intentionally, radio, current_stream_index,
                   elapsed_timer, playlist, catalog, streaming, world, idle_queue, waited,
                   last_stop, commands>>

\* Gtk.main_quit(): Gtk.main() returns; the main thread runs no callback again.
MainQuit(t) ==
    /\ At(t, <<"main_quit", "">>)
    /\ todo' = [todo EXCEPT ![t] = <<<<"exited", "">>>>]
    /\ UNCHANGED <<engine, playlist, catalog, streaming, world, idle_queue, waited, handler,
                   last_stop, commands>>

\* Gtk.main() has returned.
MainLoopEnded == At("main", <<"exited", "">>)

\* The player with the ways out of its main loop.
QuitNext ==
    \/ Next
    \/ on_quit
    \/ sigint_handler
    \/ \E t \in Threads : QuitStatus(t)
    \/ \E t \in Threads : MainQuit(t)

QuitSpec == Init /\ [][QuitNext]_vars

\* ------------------------------------------------ the player of midi.py
\* src/midi.py is the player without module files and radio.  Its state is
\* held in the same variables: self.midi_files is all_filter (every file is a
\* MIDI file), self.current_midi_index + 1 is selected (the tree cursor is set
\* to it whenever it is written), self.fluidsynth_process is
\* process["fluidsynth"], a selected soundfont is sf2_selected.  The monitor
\* thread started after the Popen of process m is monitors[m]; its field
\* process is the Popen object it reads from or waits for.  The variables
\* midi.py has nothing for keep their initial values.
MidiFileLists == {[i \in 1..n |-> "mid"] : n \in 0..MaxFiles}

midi_unused == <<stopped_intentionally, radio, current_stream_index, elapsed_timer,
                 shuffle_mode, catalog, streaming, waited, last_stop>>

\* __init__ up to its call of load_midi_files (line 64): find_midi_files has
\* filled midi_files, current_midi_index is 0.
MidiInit ==
    /\ process = [k \in Backends |-> 0]
    /\ stopped_intentionally = [k \in Renderers |-> FALSE]
    /\ radio = FALSE
    /\ current_stream_index = 0
    /\ elapsed_timer = FALSE
    /\ status_label = ""
    /\ all_filter \in MidiFileLists
    /\ selected = 1
    /\ shuffle_mode = FALSE
    /\ sf2_selected \in BOOLEAN
    /\ all_store = <<>>
    /\ favourites = {}
    /\ search_text = <<>>
    /\ visible = <<>>
    /\ search_pending = FALSE
    /\ favourites_file = <<>>
    /\ all_files = <<>>
    /\ loader = NoLoader
    /\ stream_title = <<"Unassigned title">>
    /\ track_thread = 0
    /\ readers = [p \in Pids |-> NoReader]
    /\ procs = [p \in Pids |-> NoProc]
    /\ nextPid = 1
    /\ monitors = [p \in Pids |-> NoMonitor]
    /\ idle_queue = <<>>
    /\ todo = [t \in Threads |-> <<<<"m_stop", "">>, <<"m_load", "">>>>]
    /\ waited = [t \in Threads |-> 0]
    /\ handler = [name |-> "__init__", origin |-> 0, stale |-> FALSE]
    /\ last_stop = NoStop
    /\ commands = 0

\* An exception leaves the callback: the rest of it is not run.
MidiRaise(t, exception) ==
    /\ todo' = [todo EXCEPT ![t] = <<<<"raise", exception>>>>]
    /\ UNCHANGED handler

\* The main thread is unwinding from a ZeroDivisionError.
MidiRaised == At("main", <<"raise", "ZeroDivisionError">>)

\* PyGObject prints the traceback of a callback and the main loop goes on;
\* an exception in __init__ ends the program.
MidiUnwind(t) ==
    /\ At(t, <<"raise", "ZeroDivisionError">>)
    /\ handler.name # "__init__"
    /\ Continue(t, <<>>)
    /\ UNCHANGED <<process, status_label, all_filter, selected, sf2_selected, world,
                   idle_queue, commands, midi_unused>>

\* stop_fluidsynth of midi.py up to terminate(); nothing when the handle is None.
MidiStopBegin(t) ==
    /\ At(t, <<"m_stop", "">>)
    /\ procs' = Terminate(procs, fluidsynth_process)
    /\ Continue(t, (IF fluidsynth_process # 0 THEN <<<<"m_wait", "">>>> ELSE <<>>)
                   \o Tail(todo[t]))
    /\ UNCHANGED <<process, status_label, all_filter, selected, sf2_selected, nextPid,
                   monitors, idle_queue, commands, midi_unused>>

\* wait(timeout=2) returns or raises TimeoutExpired and kill() is called;
\* the handle is cleared and the status set.
MidiStopWait(t) ==
    /\ At(t, <<"m_wait", "">>)
    /\ procs' = IF procs[fluidsynth_process].alive THEN Kill(procs, fluidsynth_process)
                ELSE procs
    /\ process' = [process EXCEPT !["fluidsynth"] = 0]
    /\ status_label' = "Playback Stopped"
    /\ Continue(t, Tail(todo[t]))
    /\ UNCHANGED <<all_filter, selected, sf2_selected, nextPid, monitors, idle_queue,
                   commands, midi_unused>>

\* load_midi_files after its stop: the store is filled and the index set to
\* 0 % len(self.midi_files).
MidiLoad(t) ==
    /\ At(t, <<"m_load", "">>)
    /\ IF all_filter = <<>>
       THEN MidiRaise(t, "ZeroDivisionError") /\ UNCHANGED selected
       ELSE selected' = 1 /\ Continue(t, Tail(todo[t]))
    /\ UNCHANGED <<process, status_label, all_filter, sf2_selected, world, idle_queue,
                   commands, midi_unused>>

\* self.midi_files = self.find_midi_files() for the directory chosen.
MidiFind(t) ==
    /\ At(t, <<"m_find", "">>)
    /\ all_filter' \in MidiFileLists
    /\ Continue(t, Tail(todo[t]))
    /\ UNCHANGED <<process, status_label, selected, sf2_selected, world, idle_queue,
                   commands, midi_unused>>

\* (self.current_midi_index + 1) % len(self.midi_files), one-based.
MidiNextIndex(sel, n) == (sel % n) + 1

\* (self.current_midi_index - 1) % len(self.midi_files), one-based.
MidiPreviousIndex(sel, n) == ((sel - 2 + n) % n) + 1

\* The index arithmetic of on_next, on_next_auto and on_previous.
MidiIndex(t) ==
    /\ todo[t] # <<>>
    /\ Head(todo[t])[1] = "m_index"
    /\ IF all_filter = <<>>
       THEN MidiRaise(t, "ZeroDivisionError") /\ UNCHANGED selected
       ELSE /\ selected' = IF Head(todo[t])[2] = "next"
                           THEN MidiNextIndex(selected, Len(all_filter))
                           ELSE MidiPreviousIndex(selected, Len(all_filter))
            /\ Continue(t, Tail(todo[t]))
    /\ UNCHANGED <<process, status_label, all_filter, sf2_selected, world, idle_queue,
                   commands, midi_unused>>

\* get_selected_midi() and get_selected_sf2() both return a file.
MidiCanPlay == all_filter # <<>> /\ sf2_selected

\* on_play after its stop: Popen succeeds and the monitor thread is started.
MidiPlayStart(t) ==
    /\ At(t, <<"m_play", "">>)
    /\ MidiCanPlay
    /\ Spawn("fluidsynth")
    /\ process' = [process EXCEPT !["fluidsynth"] = nextPid]
    /\ status_label' = "Playing"
    /\ Continue(t, Tail(todo[t]))
    /\ UNCHANGED <<all_filter, selected, sf2_selected, idle_queue, commands, midi_unused>>

\* Popen raises.
MidiPlayFail(t) ==
    /\ At(t, <<"m_play", "">>)
    /\ MidiCanPlay
    /\ process' = [process EXCEPT !["fluidsynth"] = 0]
    /\ status_label' = "Error: Unable to play"
    /\ Continue(t, Tail(todo[t]))
    /\ UNCHANGED <<all_filter, selected, sf2_selected, world, idle_queue, commands,
                   midi_unused>>

\* No file or no soundfont is selected.
MidiPlayNothing(t) ==
    /\ At(t, <<"m_play", "">>)
    /\ ~MidiCanPlay
    /\ status_label' = "No MIDI or SoundFont selected"
    /\ Continue(t, Tail(todo[t]))
    /\ UNCHANGED <<process, all_filter, selected, sf2_selected, world, idle_queue, commands,
                   midi_unused>>

\* The status text on_select_midi_source ends with.
MidiStatus(t) ==
    /\ At(t, <<"m_status", "MIDI directory updated">>)
    /\ status_label' = "MIDI directory updated"
    /\ Continue(t, Tail(todo[t]))
    /\ UNCHANGED <<process, all_filter, selected, sf2_selected, world, idle_queue, commands,
                   midi_unused>>

MidiPlayScript == <<<<"m_stop", "">>, <<"m_play", "">>>>
MidiNextScript == <<<<"m_stop", "">>, <<"m_index", "next">>>> \o MidiPlayScript
MidiPreviousScript == <<<<"m_stop", "">>, <<"m_index", "previous">>>> \o MidiPlayScript
MidiSourceScript ==
    <<<<"m_stop", "">>, <<"m_find", "">>, <<"m_stop", "">>, <<"m_load", "">>,
      <<"m_status", "MIDI directory updated">>>>

midi_on_play ==
    /\ Call("on_play", MidiPlayScript)
    /\ UNCHANGED <<process, status_label, all_filter, selected, sf2_selected, world,
                   idle_queue, midi_unused>>

midi_on_next ==
    /\ Call("on_next", MidiNextScript)
    /\ UNCHANGED <<process, status_label, all_filter, selected, sf2_selected, world,
                   idle_queue, midi_unused>>

midi_on_previous ==
    /\ Call("on_previous", MidiPreviousScript)
    /\ UNCHANGED <<process, status_label, all_filter, selected, sf2_selected, world,
                   idle_queue, midi_unused>>

\* The directory chooser of on_select_midi_source answers OK.
midi_on_select_midi_source ==
    /\ Call("on_select_midi_source", MidiSourceScript)
    /\ UNCHANGED <<process, status_label, all_filter, selected, sf2_selected, world,
                   idle_queue, midi_unused>>

\* The main loop runs a queued on_next_auto.
midi_on_next_auto ==
    /\ IdleReady("on_next_auto")
    /\ idle_queue' = Tail(idle_queue)
    /\ todo' = [todo EXCEPT !["main"] = MidiNextScript]
    /\ handler' = [name |-> "on_next_auto", origin |-> Head(idle_queue).pid, stale |-> FALSE]
    /\ UNCHANGED <<process, status_label, all_filter, selected, sf2_selected, world,
                   commands, midi_unused>>

\* monitor_fluidsynth_output starts: "if self.fluidsynth_process:" and the
\* stderr of the process the handle names at that moment.
MidiMonitorStart(m) ==
    /\ monitors[m].pc = "start"
    /\ monitors' = [monitors EXCEPT ![m].process = fluidsynth_process,
                                    ![m].pc = IF fluidsynth_process = 0 THEN "done"
                                              ELSE "read"]
    /\ UNCHANGED <<process, status_label, all_filter, selected, sf2_selected, procs, nextPid,
                   control, midi_unused>>

\* The loop over stderr ends when the process it reads from has exited; the
\* thread then waits for the process the handle names now.
MidiMonitorRead(m) ==
    /\ monitors[m].pc = "read"
    /\ ~procs[monitors[m].process].alive
    /\ monitors' = [monitors EXCEPT
                       ![m].process = IF fluidsynth_process # 0 THEN fluidsynth_process ELSE @,
                       ![m].pc = IF fluidsynth_process # 0 THEN "wait" ELSE "check"]
    /\ UNCHANGED <<process, status_label, all_filter, selected, sf2_selected, procs, nextPid,
                   control, midi_unused>>

\* self.fluidsynth_process.wait() returns.
MidiMonitorWait(m) ==
    /\ monitors[m].pc = "wait"
    /\ ~procs[monitors[m].process].alive
    /\ monitors' = [monitors EXCEPT ![m].pc = "check"]
    /\ UNCHANGED <<process, status_label, all_filter, selected, sf2_selected, procs, nextPid,
                   control, midi_unused>>

\* "if self.fluidsynth_process and self.fluidsynth_process.returncode == 0":
\* the return code is known for the process the thread has waited for.
MidiMonitorCheck(m) ==
    /\ monitors[m].pc = "check"
    /\ monitors' = [monitors EXCEPT ![m].pc = "done"]
    /\ LET h == fluidsynth_process
           natural == h # 0 /\ h = monitors[m].process /\ ~procs[h].alive /\ procs[h].rc = 0
       IN  /\ idle_queue' = IF natural
                            THEN Append(idle_queue,
                                        [cb |-> "on_next_auto", kind |-> "fluidsynth", pid |-> h])
                            ELSE idle_queue
           /\ procs' = IF natural THEN [procs EXCEPT ![h].advs = @ + 1] ELSE procs
    /\ UNCHANGED <<process, status_label, all_filter, selected, sf2_selected, nextPid,
                   todo, handler, commands, midi_unused>>

MidiStep(t) ==
    \/ MidiStopBegin(t)
    \/ MidiStopWait(t)
    \/ MidiLoad(t)
    \/ MidiFind(t)
    \/ MidiIndex(t)
    \/ MidiPlayStart(t)
    \/ MidiPlayFail(t)
    \/ MidiPlayNothing(t)
    \/ MidiStatus(t)
    \/ MidiUnwind(t)

MidiNext ==
    \/ \E t \in Threads : MidiStep(t)
    \/ midi_on_play
    \/ midi_on_next
    \/ midi_on_previous
    \/ midi_on_select_midi_source
    \/ midi_on_next_auto
    \/ \E m \in Pids : MidiMonitorStart(m)
    \/ \E m \in Pids : MidiMonitorRead(m)
    \/ \E m \in Pids : MidiMonitorWait(m)
    \/ \E m \in Pids : MidiMonitorCheck(m)
    \/ \E p \in Pids : ProcExit(p)

MidiSpec == MidiInit /\ [][MidiNext]_vars

\* ------------------------------------------- changing the source directory
\* What find_all_files returns for the directory chosen: no file, or one file.
NewFiles == {<<>>, <<PathOf(<<"n">>, <<"a">>, "mid")>>}

\* on_select_source_directory: the chooser answers OK and the thread that
\* runs _load_files_from_new_directory is started.
on_select_source_directory ==
    /\ MainIdle
    /\ loader.pc \in {"none", "done"}
    /\ loader.runs < MaxReloads
    /\ loader' = [NoLoader EXCEPT !.pc = "stop", !.runs = loader.runs + 1]
    /\ UNCHANGED <<engine, playlist, all_store, favourites, search_text, visible,
                   search_pending, favourites_file, all_files, streaming, world, control>>

\* Where the thread goes on after stop_fluidsynth and after stop_xmp.
LoaderAfterStop ==
    IF loader.k = "fluidsynth" THEN [loader EXCEPT !.pc = "stop", !.k = "xmp", !.process = 0]
    ELSE [loader EXCEPT !.pc = "clear", !.process = 0]

\* AttributeError in the thread: the except clause of
\* _load_files_from_new_directory prints it and the thread ends.
LoaderRaise == [loader EXCEPT !.pc = "done", !.process = 0]

\* stop_fluidsynth / stop_xmp in the thread: "if self.<k>_process:" and the flag.
LoaderStopBegin ==
    /\ loader.pc = "stop"
    /\ LET k == loader.k IN
          IF process[k] # 0
          THEN /\ stopped_intentionally' = [stopped_intentionally EXCEPT ![k] = TRUE]
               /\ procs' = [procs EXCEPT ![process[k]].stopped = TRUE]
               /\ loader' = [loader EXCEPT !.pc = "terminate"]
               /\ UNCHANGED elapsed_timer
          ELSE /\ elapsed_timer' = FALSE
               /\ loader' = LoaderAfterStop
               /\ UNCHANGED <<stopped_intentionally, procs>>
    /\ UNCHANGED <<process, radio, current_stream_index, status_label, playlist, all_store,
                   favourites, search_text, visible, search_pending, favourites_file,
                   all_files, streaming, nextPid, monitors, control>>

\* self.<k>_process.terminate() and the call of wait(timeout=2): the attribute
\* is read again; it is None when the main thread has cleared it.
LoaderTerminate ==
    /\ loader.pc = "terminate"
    /\ LET h == process[loader.k] IN
          /\ procs' = Terminate(procs, h)
          /\ loader' = IF h = 0 THEN LoaderRaise
                       ELSE [loader EXCEPT !.pc = "wait", !.process = h]
    /\ UNCHANGED <<engine, playlist, all_store, favourites, search_text, visible,
                   search_pending, favourites_file, all_files, streaming, nextPid, monitors,
                   control>>

\* The end of the stop in the thread: the handle is cleared whatever it
\* names now, the status set, the progress timer removed.
LoaderStopFinish ==
    /\ process' = [process EXCEPT ![loader.k] = 0]
    /\ status_label' = "Playback Stopped"
    /\ elapsed_timer' = FALSE
    /\ loader' = LoaderAfterStop
    /\ UNCHANGED <<stopped_intentionally, radio, current_stream_index, playlist, all_store,
                   favourites, search_text, visible, search_pending, favourites_file,
                   all_files, streaming, nextPid, monitors, control>>

\* wait(timeout=2) returns in the thread: the process it was called on has exited.
LoaderWaitReaped ==
    /\ loader.pc = "wait"
    /\ ~procs[loader.process].alive
    /\ LoaderStopFinish
    /\ UNCHANGED procs

\* wait(timeout=2) raises TimeoutExpired in the thread: kill() on the process
\* the attribute names now.
LoaderWaitKill ==
    /\ loader.pc = "wait"
    /\ procs[loader.process].alive
    /\ process[loader.k] # 0
    /\ procs' = Kill(procs, process[loader.k])
    /\ LoaderStopFinish

\* GLib.idle_add(self.all_store.clear)
LoaderClear ==
    /\ loader.pc = "clear"
    /\ idle_queue' = Append(idle_queue, [cb |-> "all_store.clear", kind |-> "", pid |-> 0])
    /\ loader' = [loader EXCEPT !.pc = "find"]
    /\ UNCHANGED <<engine, playlist, all_store, favourites, search_text, visible,
                   search_pending, favourites_file, all_files, streaming, world, todo, waited,
                   handler, last_stop, commands>>

\* self.all_files = self.find_all_files(); the next statement evaluates
\* self._load_files_into_store, which the class does not define: the
\* AttributeError is caught and the thread ends with nothing else queued
\* but spinner.stop.
LoaderFind ==
    /\ loader.pc = "find"
    /\ all_files' \in NewFiles
    /\ loader' = LoaderRaise
    /\ UNCHANGED <<engine, playlist, all_store, favourites, search_text, visible,
                   search_pending, favourites_file, streaming, world, control>>

\* The queued all_store.clear runs: the store and the view are empty.  The
\* paths of self.favourites stay; no row carries them.
all_store_clear ==
    /\ IdleReady("all_store.clear")
    /\ idle_queue' = Tail(idle_queue)
    /\ all_store' = <<>>
    /\ favourites' = {}
    /\ visible' = <<>>
    /\ all_filter' = <<>>
    /\ selected' = 0
    /\ UNCHANGED <<engine, shuffle_mode, sf2_selected, search_text, search_pending,
                   favourites_file, all_files, loader, streaming, world, todo, waited,
                   handler, last_stop, commands>>

\* A step of the thread.
LoaderStep ==
    \/ LoaderStopBegin
    \/ LoaderTerminate
    \/ LoaderWaitReaped
    \/ LoaderWaitKill
    \/ LoaderClear
    \/ LoaderFind

\* The steps of the callbacks that play a file.
ReloadStep(t) ==
    \/ \E k \in Renderers :
          \/ StopBegin(t, k)
          \/ StopTerminate(t, k)
          \/ StopWaitReaped(t, k)
          \/ StopWaitTick(t, k)
          \/ StopWaitKill(t, k)
    \/ StopStream(t)
    \/ PlayNoFile(t)
    \/ PlayNoSoundfont(t)
    \/ PlayStart(t)
    \/ PlayFail(t)
    \/ NextCursor(t)

\* The player with its file list, the renderers and the directory chooser.
ReloadNext ==
    \/ on_select_source_directory
    \/ LoaderStep
    \/ all_store_clear
    \/ \E t \in Threads : ReloadStep(t)
    \/ \E i \in 1..MaxFiles : on_file_selected(i)
    \/ stop_playback_timer
    \/ on_next_auto
    \/ \E k \in Renderers : handle_error(k)
    \/ \E m \in Pids : MonitorStart(m)
    \/ \E m \in Pids : MonitorExit(m)
    \/ \E p \in Pids : ProcExit(p)

\* The source directory is changed in a run without favourites.
ReloadInit == Init /\ favourites = {}

ReloadSpec == ReloadInit /\ [][ReloadNext]_vars

\* ===================================================================== claims
RendererPids == {p \in Pids : procs[p].kind \in Renderers}

\* The main thread takes the step op.
MainStep(op) == At("main", op) /\ todo' # todo

\* The monitor thread started for p has handled the exit of p.
MonitorDone(p) == monitors[p].pc = "done" /\ monitors[p].process = p

\* C1: at most one external playback process (fluidsynth, xmp or mplayer) is
\* alive at any instant.
C1_AtMostOneProcessAlive ==
    Cardinality({p \in Pids : procs[p].alive}) <= 1

\* C2: for a live render job that the engine stopped (terminate() reached the
\* running process), no monitor ever schedules handle_fluidsynth_error /
\* handle_xmp_error, whatever the exit code and the interleaving.
C2_StoppedJobNeverSurfacesFailure ==
    \A p \in RendererPids : procs[p].sigterm => procs[p].errs = 0

\* C3: for a live render job that the engine stopped, the monitor schedules
\* neither an error nor an auto-advance (on_next_auto).
C3_StoppedJobIsSuppressed ==
    \A p \in RendererPids :
        procs[p].sigterm => (procs[p].errs = 0 /\ procs[p].advs = 0)

\* advance(Next) of the specification, section 4.3: past the last row the
\* cursor wraps to the first row.
AdvanceNext(sel, n) == IF sel < n THEN sel + 1 ELSE 1

\* C4: a renderer exit with code 0 that the engine did not stop causes exactly
\* one auto-advance, in which the cursor moves by one Next step and play is
\* issued for the resulting entry: no exit has more than one on_next_auto
\* queued, and the cursor step of on_next_auto in sequential mode on a
\* non-empty view selects the Next row, which the play step then finds.
C4_NaturalExitAdvancesOnce ==
    /\ [](\A p \in RendererPids : procs[p].advs <= 1)
    /\ [][(handler.name = "on_next_auto" /\ MainStep(<<"next_cursor", "">>)
           /\ ~shuffle_mode /\ all_filter # <<>>)
          => selected' = AdvanceNext(selected, Len(all_filter))]_vars

C6_UnmarkedFailureIsNatural ==
    \A p \in RendererPids :
        (MonitorDone(p) /\ procs[p].rc # 0 /\ ~procs[p].stopped
           /\ procs[p].stderr = "")
        => (procs[p].advs >= 1 /\ procs[p].errs = 0)

\* C7: a queued on_next_auto of a job that was superseded (another process
\* was spawned after it) signals no process and does not move the cursor.
C7_StaleAutoAdvanceIgnored ==
    [][(handler.name = "on_next_auto" /\ handler.stale /\ todo' # todo)
       => /\ selected' = selected
          /\ \A p \in Pids : procs'[p].sigterm = procs[p].sigterm]_vars

\* C8: when stop_fluidsynth / stop_xmp has returned, the monitor thread of
\* the stopped job has finished: a monitor thread that is still running
\* belongs to the job its handle slot names.
C8_NoLingeringMonitor ==
    \A m \in Pids :
        monitors[m].pc \in {"start", "wait"} => process[monitors[m].kind] = m

C11_StopBeforeStart ==
    [][nextPid' # nextPid
       => /\ process = [k \in Backends |-> 0]
          /\ ~radio
          /\ ~elapsed_timer
          /\ \A p \in RendererPids : procs[p].stopped]_vars

\* on_play on the track already playing: the running job was stopped and a
\* new process of the same backend plays the same row.
C11_Witness ==
    /\ nextPid = 3
    /\ procs[1].kind = procs[2].kind
    /\ procs[1].kind \in Renderers
    /\ procs[1].stopped /\ procs[1].sigterm
    /\ procs[2].alive
    /\ process[procs[2].kind] = 2
    /\ commands = 2

C13_SpawnFailureSurfaced ==
    [][(MainStep(<<"play", "">>) /\ CanPlay /\ nextPid' = nextPid)
       => /\ status_label' = "Error: Unable to play"
          /\ process' = [k \in Backends |-> 0]
          /\ ~elapsed_timer'
          /\ monitors' = monitors]_vars

\* C14: once a renderer has exited on its own and the exit has been handled
\* (its monitor has finished and the main loop has run what it queued), the
\* handle slot no longer names it.
C14_HandleClearedOnExit ==
    \A p \in RendererPids :
        (MonitorDone(p) /\ ~procs[p].alive /\ ~procs[p].sigterm
           /\ MainIdle /\ idle_queue = <<>>)
        => process[procs[p].kind] # p

\* C15: in sequential mode on_next from the last row of a non-empty view
\* selects the first row.
C15_NextWrapsToFirst ==
    [][(handler.name = "on_next" /\ MainStep(<<"next_cursor", "">>)
          /\ ~shuffle_mode /\ all_filter # <<>>
          /\ selected = Len(all_filter))
       => selected' = 1]_vars

\* The cursor after k sequential Next steps of on_next / on_next_auto.
RECURSIVE NextTimes(_, _, _)
NextTimes(sel, n, k) ==
    IF k = 0 THEN sel ELSE NextTimes(NextRow(sel, n), n, k - 1)

\* The cursor after k sequential Previous steps of on_previous.
RECURSIVE PreviousTimes(_, _, _)
PreviousTimes(sel, n, k) ==
    IF k = 0 THEN sel ELSE PreviousTimes(PreviousRow(sel, n), n, k - 1)

\* C16: in sequential mode, from every cursor position of a non-empty view,
\* len(view) Next steps return the cursor to that position.
C16_NextRoundTrip ==
    (~shuffle_mode /\ selected # 0)
    => NextTimes(selected, Len(all_filter), Len(all_filter)) = selected

CursorOperation ==
    \/ MainStep(<<"next_cursor", "">>)
    \/ MainStep(<<"previous_cursor", "">>)
    \/ favourites' # favourites
    \/ search_pending /\ ~search_pending'

\* C18: an operation on the playlist (next, previous, auto-advance, filter
\* change, favourite toggle) that starts with the cursor on a row of the view
\* and ends with a non-empty view leaves the cursor on a row of the view.
C18_CursorStaysInView ==
    [][(CursorOperation /\ selected \in 1..Len(all_filter) /\ all_filter' # <<>>)
       => selected' \in 1..Len(all_filter')]_vars

C20_StarShowsExactlyFavourites ==
    (search_text = <<"*">> /\ ~search_pending)
        => {visible[j] : j \in 1..Len(visible)} = favourites

\* C21: when a favourite toggle of an entry is followed by a second toggle of
\* the same entry, the favourites set, the displayed name of the entry and
\* the paths the favourites file holds are what they were before the first.
C21_ToggleTwiceRestores ==
    [][favourites' # favourites =>
        LET iter == CHOOSE i \in 1..Len(all_store) : (i \in favourites) # (i \in favourites')
            twice == ToggleFavourite(all_store', favourites', iter)
        IN  /\ twice.favourites = favourites
            /\ twice.all_store[iter].name = all_store[iter].name
            /\ \A text \in save_favourites(PathsOf(twice.all_store, twice.favourites)) :
                   load_favourites(text) = load_favourites(favourites_file)]_vars

\* C22: for every set of paths of the catalog, every file save_favourites can
\* write for it loads back as exactly that set.
C22_SaveLoadRoundTrip ==
    \A rows \in SUBSET (1..Len(all_store)) :
        \A text \in save_favourites(PathsOf(all_store, rows)) :
            load_favourites(text) = PathsOf(all_store, rows)

\* C23: a favourite toggle leaves a favourites file whose lines are exactly
\* the paths of the favourites, each on one line.
C23_FileHoldsFavourites ==
    [][favourites' # favourites =>
        LET lines == Lines(favourites_file', <<>>)
        IN  /\ {lines[i] : i \in 1..Len(lines)} = PathsOf(all_store', favourites')
            /\ Len(lines) = Cardinality(favourites')]_vars

\* The step with which a call of stop_stream returns: its join, or its
\* terminate when there is no reader thread to join.
StopStreamReturns ==
    \/ MainStep(<<"join", "track_thread">>)
    \/ MainStep(<<"stop_stream", "mplayer">>) /\ todo'["main"] = Tail(todo["main"])

\* C24: when stop_stream returns, no mplayer process the program started is
\* still running.
C24_StopStreamStopsMplayer ==
    [][StopStreamReturns => \A p \in Pids : procs'[p].kind = "mplayer" => ~procs'[p].alive]_vars

\* C25: when stop_stream returns no reader thread is running, and at no time
\* do two reader threads run.
C25_ReaderJoined ==
    /\ [](Cardinality({r \in Pids : ReaderAlive(r)}) <= 1)
    /\ [][StopStreamReturns => \A r \in Pids : ~ReaderAlive(r)]_vars

\* The radio session of mplayer process p is live before and after a step,
\* and the response its reader got carries no icy-metaint header.
SessionWithoutMetaint(p) ==
    /\ radio /\ mplayer_process = p
    /\ radio' /\ mplayer_process' = p
    /\ readers[p].status = "200" /\ readers[p].metaint = 0

\* C27: during a radio session whose response has no icy-metaint header the
\* audio backend is not stopped and the stream title does not change.
C27_NoMetaintTitleFixed ==
    [][\A p \in Pids : SessionWithoutMetaint(p)
           => (stream_title' = stream_title /\ procs'[p].sigterm = procs[p].sigterm)]_vars

\* C26: a reader publishes at most one title for each metadata frame of its
\* stream, and a reader that has read the whole stream and published a title
\* for each frame has published the titles the server sent, in their order.
C26_TitlesPublished ==
    \A r \in Pids :
        /\ Len(readers[r].events) <= Len(readers[r].sent)
        /\ (readers[r].pc = "done" /\ readers[r].body = <<>>
              /\ Len(readers[r].events) = Len(readers[r].sent))
           => readers[r].events = readers[r].sent

\* A step of a background thread: a process monitor or a metadata reader
\* moves on (a step that spawns a process is a step of the main thread).
BackgroundStep ==
    nextPid' = nextPid /\ (monitors' # monitors \/ readers' # readers)

\* C28: a step of a background thread changes nothing of the engine's state
\* or of what the user sees; it may only add to the idle queue.
C28_ThreadsUseQueue ==
    [][BackgroundStep
       => UNCHANGED <<process, stopped_intentionally, radio, current_stream_index,
                      elapsed_timer, status_label, playlist, catalog, stream_title,
                      track_thread>>]_vars

\* C29: once the last renderer started has exited and its exit has been
\* handled (its monitor is done, the main loop idle, no callback queued), the
\* progress timer is not registered.
C29_TimerCancelledOnExit ==
    \A p \in RendererPids :
        (nextPid = p + 1 /\ ~procs[p].alive /\ MonitorDone(p) /\ MainIdle /\ idle_queue = <<>>)
            => ~elapsed_timer

\* C30: while a renderer the engine holds is running, or the radio is on, the
\* progress timer is registered.
C30_TimerRunsWhilePlaying ==
    (MainIdle /\ (radio \/ \E k \in Renderers : process[k] # 0 /\ procs[process[k]].alive))
        => elapsed_timer

\* The main thread is about to take the cursor step of next, previous or
\* auto-advance in shuffle mode on a view that has rows.
ShufflePick ==
    /\ shuffle_mode /\ all_filter # <<>>
    /\ (At("main", <<"next_cursor", "">>) \/ At("main", <<"previous_cursor", "">>))

\* C33: in shuffle mode the cursor step of next, previous and auto-advance
\* can choose every row of the view, the current one included, always ends on
\* a row of the view, and changes neither the catalog nor the view.
C33_ShufflePicksAnyRow ==
    /\ [](ShufflePick
            => \A i \in 1..Len(all_filter) :
                   ENABLED ((NextCursor("main") \/ PreviousCursor("main")) /\ selected' = i))
    /\ [][(ShufflePick /\ todo' # todo)
            => /\ selected' \in 1..Len(all_filter)
               /\ UNCHANGED <<all_filter, all_store, visible, favourites>>]_vars

\* An auto-advance in shuffle mode is about to pick on a view of two rows
\* with the cursor on the last one.
C33_Witness ==
    /\ ShufflePick /\ handler.name = "on_next_auto"
    /\ Len(all_filter) = MaxFiles /\ selected = MaxFiles

\* A reader thread other than the one of the current radio session takes a step.
StaleReaderStep(r) ==
    r # track_thread /\ ReaderAlive(r) /\ readers'[r] # readers[r]

\* C35: a step of the reader thread of an earlier station publishes no title
\* and leaves stream_title as it is.
C35_StaleReaderSilent ==
    [][\A r \in Pids : StaleReaderStep(r)
           => (stream_title' = stream_title /\ readers'[r].events = readers[r].events)]_vars

\* The number of times the title changes in a sequence of metadata frames,
\* the first title counted as a change.
TitleChanges(titles) ==
    Cardinality({i \in 1..Len(titles) : i = 1 \/ titles[i] # titles[i - 1]})

\* The reader of the current radio session has read its stream to the end.
ReaderFinished(r) ==
    /\ radio /\ track_thread = r
    /\ readers[r].pc = "done" /\ readers[r].status = "200" /\ readers[r].metaint # 0
    /\ readers[r].body = <<>>

\* C36: a reader that has read the whole stream of its session has published
\* as many titles as the title changed in the metadata frames it was sent.
C36_OneEventPerChange ==
    \A r \in Pids : ReaderFinished(r) => Len(readers[r].events) = TitleChanges(readers[r].sent)

\* C39: while on_save runs no process is spawned, no process is signalled and
\* no handle is changed, so what was playing before the export, or nothing,
\* is what plays after it.
C39_SaveLeavesPlayback ==
    [][handler.name = "on_save"
       => /\ nextPid' = nextPid
          /\ process' = process
          /\ \A p \in Pids : procs'[p].sigterm = procs[p].sigterm]_vars

\* C40: once the main loop has ended, every playback process that is still
\* running has been sent its stop signal.
C40_NoProcessOutlivesExit ==
    MainLoopEnded => \A p \in Pids : procs[p].alive => procs[p].sigterm

\* The monitor thread m of midi.py queues an on_next_auto.
MidiSchedules(m) ==
    monitors[m].pc = "check" /\ monitors'[m].pc = "done" /\ idle_queue' # idle_queue

\* C34: in midi.py a monitor thread that queues on_next_auto does so for the
\* exit of the process it was started for, and no on_next_auto was queued for
\* that process before.
C34_OneAdvancePerProcess ==
    [][\A m \in Pids : MidiSchedules(m)
           => (fluidsynth_process = m /\ procs[m].advs = 0)]_vars

\* C37: in midi.py a step taken with an empty file list raises no error and
\* spawns no process.
C37_EmptyListNoError ==
    [][all_filter = <<>> => (~MidiRaised' /\ nextPid' = nextPid)]_vars

\* The code points of the characters of the paths of the runs; an extension
\* is one token, ranked by its spelling.
CodeOf(c) ==
    CASE c = "*" -> 42
      [] c = "." -> 46
      [] c = "/" -> 47
      [] c = "A" -> 65
      [] c = "a" -> 97
      [] c = "d" -> 100
      [] c = "mid" -> 1001
      [] c = "mod" -> 1002
      [] c = Undecodable -> 56448
      [] OTHER -> 0

\* p < q for two strings, as Python compares them.
RECURSIVE StrLess(_, _)
StrLess(p, q) ==
    IF q = <<>> THEN FALSE
    ELSE IF p = <<>> THEN TRUE
    ELSE IF Head(p) = Head(q) THEN StrLess(Tail(p), Tail(q))
    ELSE CodeOf(Head(p)) < CodeOf(Head(q))

\* The full paths of the rows the view shows, in the order of the view.
ViewPaths == [i \in 1..Len(visible) |-> all_store[visible[i]].path]

\* C32: with shuffle off the rows of the view are in the case-insensitive
\* order of their full paths.
C32_ViewSorted ==
    ~shuffle_mode
        => \A i, j \in 1..Len(ViewPaths) :
               i < j => ~StrLess(Lower(ViewPaths[j]), Lower(ViewPaths[i]))

\* Nothing is running or queued that could still change the view.
ViewSettled ==
    /\ MainIdle /\ idle_queue = <<>> /\ ~search_pending
    /\ loader.pc \in {"none", "done"}

\* C31: once the program has settled with an empty filter text, the view
\* shows the entries of the current catalog, all of them and no other.
C31_ViewShowsCatalog ==
    (ViewSettled /\ search_text = <<>>)
        => {ViewPaths[i] : i \in 1..Len(ViewPaths)} = {all_files[i] : i \in 1..Len(all_files)}

\* C38: a step of the reload thread that clears a renderer's handle finds it
\* naming a process that has exited or has been sent its stop signal.
C38_LoaderKeepsHandles ==
    [][\A k \in Renderers :
           (loader' # loader /\ process[k] # 0 /\ process'[k] # process[k])
               => (~procs'[process[k]].alive \/ procs'[process[k]].sigterm)]_vars

====
